---- MODULE Spec2Model ----
(***************************************************************************)
(* Cut-planning core of the story editor: the TimelineManager aggregate    *)
(* (core/timeline_manager.py) and the pure functions of SceneDetector      *)
(* (core/scene_detector.py).                                               *)
(*                                                                         *)
(* Times are floats in the source; here they are integers.                 *)
(*                                                                         *)
(* Spec follows one TimelineManager through an editing session;            *)
(* SpecMutators and SpecScenes are that session restricted to the          *)
(* structural mutators and to laying out scenes and cuts.                  *)
(* SpecCalls follows single calls of the pure functions (SceneDetector's   *)
(* and the TimelineManager's generators) on arguments drawn from bounded   *)
(* sets: call holds the function and its arguments, result what it         *)
(* returned or raised.                                                     *)
(* SpecPipeline follows one run of AutomationPipeline.execute_full_pipeline *)
(* (core/automation.py).                                                   *)
(***************************************************************************)
EXTENDS Integers, Sequences, FiniteSets, TLC

VARIABLES cuts, scenes, timeline_duration,
          min_cut_duration, max_cut_duration, min_scene_duration,
          file, op, args, ret, call, result, pipeline, temp, widget

vars == <<cuts, scenes, timeline_duration,
          min_cut_duration, max_cut_duration, min_scene_duration,
          file, op, args, ret, call, result, pipeline, temp, widget>>

tmvars == <<cuts, scenes, timeline_duration,
            min_cut_duration, max_cut_duration, min_scene_duration,
            file, op, args, ret>>

(***************************************************************************)
(* Bounds of the model.                                                    *)
(***************************************************************************)
MaxCuts == 2
MaxScenes == 1
MaxSceneCuts == 2
MaxZigzag == 7

(***************************************************************************)
(* Program constants.                                                      *)
(***************************************************************************)
DefaultMinCutDuration == 3
DefaultMaxCutDuration == 7
DefaultMinSceneDuration == 3
DefaultSceneId == -1
DefaultColor == "#6b46c1"

(***************************************************************************)
(* Generic helpers.                                                        *)
(***************************************************************************)
Min_swapped(a, b) == IF a < b THEN b ELSE a

Min(a, b) == IF a < b THEN a ELSE b

RECURSIVE SumDurations(_)
SumDurations(cs) ==
    IF cs = <<>> THEN 0 ELSE Head(cs).duration + SumDurations(Tail(cs))

InSeq(x, s) == \E k \in 1..Len(s) : s[k] = x

\* list.remove(x): drops the first occurrence of x
RECURSIVE RemoveFirst(_, _)
RemoveFirst(s, x) ==
    IF s = <<>> THEN <<>>
    ELSE IF Head(s) = x THEN Tail(s)
    ELSE <<Head(s)>> \o RemoveFirst(Tail(s), x)

\* list.pop(i) with a 1-based index
PopAt(s, i) == [k \in 1..(Len(s) - 1) |-> IF k < i THEN s[k] ELSE s[k + 1]]

\* dict.get(key, default)
Get(d, key, default) == IF key \in DOMAIN d THEN d[key] ELSE default

\* random.uniform(a, b): any value between the two arguments, ends included
Uniform(a, b) == IF a <= b THEN a..b ELSE b..a

(***************************************************************************)
(* TimelineCut and TimelineScene.                                          *)
(***************************************************************************)
TimelineCut(cut_id, start_time, end_time, scene_id) ==
    [cut_id      |-> cut_id,
     start_time  |-> start_time,
     end_time    |-> end_time,
     duration    |-> end_time - start_time,
     scene_id    |-> scene_id,
     order_index |-> cut_id,
     selected    |-> FALSE,
     enabled     |-> TRUE,
     effects     |-> <<>>]

Cut_to_dict(c) ==
    [cut_id      |-> c.cut_id,
     start       |-> c.start_time,
     end         |-> c.end_time,
     duration    |-> c.duration,
     scene_id    |-> c.scene_id,
     order_index |-> c.order_index,
     selected    |-> c.selected,
     enabled     |-> c.enabled,
     effects     |-> c.effects]

\* data['cut_id'], data['start'], data['end'] raise KeyError when absent
Cut_from_dict_raises(d) == ~({"cut_id", "start", "end"} \subseteq DOMAIN d)

Cut_from_dict_without_scene(d) ==
    [TimelineCut(d.cut_id, d.start, d["end"], DefaultSceneId)
       EXCEPT !.selected = Get(d, "selected", FALSE),
              !.enabled  = Get(d, "enabled", TRUE),
              !.effects  = Get(d, "effects", <<>>)]

Cut_from_dict(d) ==
    [TimelineCut(d.cut_id, d.start, d["end"], Get(d, "scene_id", DefaultSceneId))
       EXCEPT !.selected = Get(d, "selected", FALSE),
              !.enabled  = Get(d, "enabled", TRUE),
              !.effects  = Get(d, "effects", <<>>)]

TimelineScene(scene_id, start_time, end_time) ==
    [scene_id   |-> scene_id,
     start_time |-> start_time,
     end_time   |-> end_time,
     duration   |-> end_time - start_time,
     cuts       |-> <<>>,
     selected   |-> FALSE,
     color      |-> DefaultColor]

Scene_add_cut(s, cut) == [s EXCEPT !.cuts = Append(@, cut.cut_id)]

Scene_remove_cut(s, cut_id) ==
    IF InSeq(cut_id, s.cuts) THEN [s EXCEPT !.cuts = RemoveFirst(@, cut_id)] ELSE s

Scene_to_dict(s) ==
    [scene_id |-> s.scene_id,
     start    |-> s.start_time,
     end      |-> s.end_time,
     duration |-> s.duration,
     cuts     |-> s.cuts,
     selected |-> s.selected,
     color    |-> s.color]

Scene_from_dict_raises(d) == ~({"scene_id", "start", "end"} \subseteq DOMAIN d)

Scene_from_dict(d) ==
    [TimelineScene(d.scene_id, d.start, d["end"])
       EXCEPT !.cuts     = Get(d, "cuts", <<>>),
              !.selected = Get(d, "selected", FALSE),
              !.color    = Get(d, "color", DefaultColor)]

(***************************************************************************)
(* TimelineManager.                                                        *)
(***************************************************************************)
\* update_timeline_duration: the sum over all cuts held, 0.0 when none
TimelineDurationOf(cs) == IF cs # <<>> THEN SumDurations(cs) ELSE 0

\* truthiness and value of what a method returned
Returned(ok, value) == [ok |-> ok, value |-> value]

MissingFile == [status |-> "missing"]
CorruptFile == [status |-> "corrupt"]
JsonFile(data) == [status |-> "json", data |-> data]

\* An editing session: the structural mutators are taken until the session
\* file is first written; after that the model follows only saves, loads and
\* queries (this keeps the product of saved and in-memory timelines finite
\* and small).
Editing == file = MissingFile

Overlap(a, b) == a.start_time < b.end_time /\ a.end_time > b.start_time

DurationRejected_min_only(duration, lo, hi) == duration < lo

\* add_cut's two early returns
DurationRejected(duration, lo, hi) == duration < lo \/ duration > hi

AddCut(start_time, end_time, scene_id) ==
    LET duration == end_time - start_time
        cut == TimelineCut(Len(cuts), start_time, end_time, scene_id)
        newcuts == Append(cuts, cut)
    IN  /\ Editing
        /\ op' = "add_cut"
        /\ args' = <<start_time, end_time, scene_id>>
        /\ IF DurationRejected(duration, min_cut_duration, max_cut_duration)
           THEN /\ ret' = Returned(FALSE, <<>>)
                /\ UNCHANGED <<cuts, scenes, timeline_duration>>
           ELSE /\ Len(cuts) < MaxCuts
                /\ 0 <= scene_id /\ scene_id < Len(scenes)
                      => Len(scenes[scene_id + 1].cuts) < MaxSceneCuts
                /\ cuts' = newcuts
                /\ scenes' = IF 0 <= scene_id /\ scene_id < Len(scenes)
                             THEN [scenes EXCEPT ![scene_id + 1] = Scene_add_cut(@, cut)]
                             ELSE scenes
                /\ timeline_duration' = TimelineDurationOf(newcuts)
                /\ ret' = Returned(TRUE, <<cut>>)
        /\ UNCHANGED <<min_cut_duration, max_cut_duration, min_scene_duration,
                       file>>

\* index (1-based) of the first cut whose cut_id is the one asked for, 0 if none
FindCut(cs, cut_id) ==
    IF \E k \in 1..Len(cs) : cs[k].cut_id = cut_id
    THEN CHOOSE k \in 1..Len(cs) :
            /\ cs[k].cut_id = cut_id
            /\ \A j \in 1..(k - 1) : cs[j].cut_id # cut_id
    ELSE 0

RemoveCut(cut_id) ==
    LET i == FindCut(cuts, cut_id)
    IN  /\ Editing
        /\ op' = "remove_cut"
        /\ args' = <<cut_id>>
        /\ IF i = 0
           THEN /\ ret' = Returned(FALSE, <<>>)
                /\ UNCHANGED <<cuts, scenes, timeline_duration>>
           ELSE LET cut == cuts[i]
                    newcuts == PopAt(cuts, i)
                IN  /\ scenes' = IF 0 <= cut.scene_id /\ cut.scene_id < Len(scenes)
                                 THEN [scenes EXCEPT ![cut.scene_id + 1] =
                                                        Scene_remove_cut(@, cut_id)]
                                 ELSE scenes
                    /\ cuts' = newcuts
                    /\ timeline_duration' = TimelineDurationOf(newcuts)
                    /\ ret' = Returned(TRUE, <<>>)
        /\ UNCHANGED <<min_cut_duration, max_cut_duration, min_scene_duration,
                       file>>

SceneRejected_never(duration, lo) == FALSE

\* add_scene's early return
SceneRejected(duration, lo) == duration < lo

\* add_scene while the timeline holds fewer than bound scenes
AddScene(start_time, end_time, bound) ==
    LET duration == end_time - start_time
        scene == TimelineScene(Len(scenes), start_time, end_time)
    IN  /\ Editing
        /\ op' = "add_scene"
        /\ args' = <<start_time, end_time>>
        /\ IF SceneRejected(duration, min_scene_duration)
           THEN /\ ret' = Returned(FALSE, <<>>)
                /\ UNCHANGED scenes
           ELSE /\ Len(scenes) < bound
                /\ scenes' = Append(scenes, scene)
                /\ ret' = Returned(TRUE, <<scene>>)
        /\ UNCHANGED <<cuts, timeline_duration, min_cut_duration, max_cut_duration,
                       min_scene_duration, file>>

\* The loop of generate_cuts_from_scenes from scene i on: every outcome
\* <<cuts, scenes>> the random draws allow.
RECURSIVE GenerateLoop(_, _, _)
GenerateLoop(ss, i, cs) ==
    IF i > Len(ss) THEN {<<cs, ss>>}
    ELSE LET scene == ss[i]
             scene_duration == scene.duration
         IN  IF scene_duration < min_cut_duration
             THEN GenerateLoop(ss, i + 1, cs)
             ELSE UNION { UNION {
                    LET cut == TimelineCut(Len(cs), cut_start, cut_start + cut_duration,
                                           scene.scene_id)
                    IN  GenerateLoop([ss EXCEPT ![i] = Scene_add_cut(@, cut)],
                                     i + 1, Append(cs, cut))
                    : cut_start \in Uniform(scene.start_time,
                                            scene.end_time - cut_duration) }
                    : cut_duration \in Uniform(min_cut_duration,
                                               Min(max_cut_duration, scene_duration)) }

GenerateCutsFromScenes_additive ==
    /\ Editing
    /\ \A k \in 1..Len(scenes) : Len(scenes[k].cuts) < MaxSceneCuts
    /\ \E out \in GenerateLoop(scenes, 1, <<>>) :
          /\ cuts' = cuts \o out[1]
          /\ scenes' = out[2]
          /\ timeline_duration' = TimelineDurationOf(cuts \o out[1])
          /\ ret' = Returned(out[1] # <<>>, out[1])
    /\ op' = "generate_cuts_from_scenes"
    /\ args' = <<>>
    /\ UNCHANGED <<min_cut_duration, max_cut_duration, min_scene_duration,
                   file>>

GenerateCutsFromScenes ==
    /\ Editing
    /\ \A k \in 1..Len(scenes) : Len(scenes[k].cuts) < MaxSceneCuts
    /\ \E out \in GenerateLoop(scenes, 1, <<>>) :
          /\ cuts' = out[1]
          /\ scenes' = out[2]
          /\ timeline_duration' = TimelineDurationOf(out[1])
          /\ ret' = Returned(out[1] # <<>>, out[1])
    /\ op' = "generate_cuts_from_scenes"
    /\ args' = <<>>
    /\ UNCHANGED <<min_cut_duration, max_cut_duration, min_scene_duration,
                   file>>

ClearTimeline ==
    /\ Editing
    /\ cuts' = <<>>
    /\ scenes' = <<>>
    /\ timeline_duration' = 0
    /\ op' = "clear_timeline"
    /\ args' = <<>>
    /\ ret' = Returned(FALSE, <<>>)
    /\ UNCHANGED <<min_cut_duration, max_cut_duration, min_scene_duration,
                   file>>

(***************************************************************************)
(* Persistence.  A file is missing, unparsable, or holds a JSON object.    *)
(***************************************************************************)
MapSeq(F(_), s) == [k \in 1..Len(s) |-> F(s[k])]

TimelineData ==
    [cuts     |-> MapSeq(Cut_to_dict, cuts),
     scenes   |-> MapSeq(Scene_to_dict, scenes),
     settings |-> [min_cut_duration   |-> min_cut_duration,
                   max_cut_duration   |-> max_cut_duration,
                   min_scene_duration |-> min_scene_duration]]

\* save_timeline to the session's own path (the path is writable)
SaveTimeline ==
    /\ file' = JsonFile(TimelineData)
    /\ op' = "save_timeline"
    /\ args' = <<>>
    /\ ret' = Returned(TRUE, <<>>)
    /\ UNCHANGED <<cuts, scenes, timeline_duration, min_cut_duration,
                   max_cut_duration, min_scene_duration>>

\* Files not written by this program that load_timeline may be pointed at.
ExternalFiles ==
    [nonexistent |-> MissingFile,
     garbage     |-> CorruptFile,
     disabled    |-> JsonFile(
        [cuts   |-> << [cut_id |-> 0, start |-> 0, end |-> 4, enabled |-> FALSE],
                       [cut_id |-> 1, start |-> 2, end |-> 8, scene_id |-> 0] >>,
         scenes |-> << [scene_id |-> 0, start |-> 0, end |-> 8, cuts |-> <<1>>] >>]),
     badscene    |-> JsonFile(
        [cuts     |-> << [cut_id |-> 0, start |-> 4, end |-> 8] >>,
         scenes   |-> << [scene_id |-> 0, start |-> 0] >>,
         settings |-> [min_cut_duration |-> 2]]),
     badcut      |-> JsonFile(
        [cuts   |-> << [cut_id |-> 0, start |-> 0] >>,
         scenes |-> << >>]),
     settings    |-> JsonFile(
        [scenes   |-> << [scene_id |-> 0, start |-> 0, end |-> 2],
                         [scene_id |-> 1, start |-> 2, end |-> 8] >>,
         settings |-> [min_cut_duration |-> 4, max_cut_duration |-> 5,
                       min_scene_duration |-> 2]])]

Paths == {"saved"} \cup DOMAIN ExternalFiles

Content(path) == IF path = "saved" THEN file ELSE ExternalFiles[path]

LoadTimeline(path) ==
    LET f == Content(path)
        cuts_data == Get(f.data, "cuts", <<>>)
        scenes_data == Get(f.data, "scenes", <<>>)
        settings == Get(f.data, "settings", <<>>)
        newcuts == MapSeq(Cut_from_dict, cuts_data)
    IN  /\ op' = "load_timeline"
        /\ args' = <<path>>
        /\ IF f.status # "json"
              \/ \E k \in 1..Len(cuts_data) : Cut_from_dict_raises(cuts_data[k])
           THEN \* not found, json.load raised, or a cut record raised KeyError
                /\ ret' = Returned(FALSE, <<path>>)
                /\ UNCHANGED <<cuts, scenes, timeline_duration, min_cut_duration,
                               max_cut_duration, min_scene_duration>>
           ELSE IF \E k \in 1..Len(scenes_data) : Scene_from_dict_raises(scenes_data[k])
           THEN \* self.cuts is already assigned when a scene record raises
                /\ cuts' = newcuts
                /\ ret' = Returned(FALSE, <<path>>)
                /\ UNCHANGED <<scenes, timeline_duration, min_cut_duration,
                               max_cut_duration, min_scene_duration>>
           ELSE /\ cuts' = newcuts
                /\ scenes' = MapSeq(Scene_from_dict, scenes_data)
                /\ min_cut_duration' =
                      Get(settings, "min_cut_duration", DefaultMinCutDuration)
                /\ max_cut_duration' =
                      Get(settings, "max_cut_duration", DefaultMaxCutDuration)
                /\ min_scene_duration' =
                      Get(settings, "min_scene_duration", DefaultMinSceneDuration)
                /\ timeline_duration' = TimelineDurationOf(newcuts)
                /\ ret' = Returned(TRUE, <<path>>)
        /\ UNCHANGED file

(***************************************************************************)
(* validate_timeline: the issues in the order the three scans find them.   *)
(***************************************************************************)
Issue(kind, a, b) == [kind |-> kind, a |-> a, b |-> b]

RECURSIVE OverlapIssues(_, _, _)
OverlapIssues(cs, i, j) ==
    IF i > Len(cs) THEN <<>>
    ELSE IF j > Len(cs) THEN OverlapIssues(cs, i + 1, i + 2)
    ELSE (IF Overlap(cs[i], cs[j]) THEN <<Issue("overlap", i - 1, j - 1)>> ELSE <<>>)
         \o OverlapIssues(cs, i, j + 1)

RECURSIVE CutDurationIssues(_, _, _, _)
CutDurationIssues(cs, i, lo, hi) ==
    IF i > Len(cs) THEN <<>>
    ELSE (IF cs[i].duration < lo THEN <<Issue("cut too short", i - 1, -1)>> ELSE <<>>)
         \o (IF cs[i].duration > hi THEN <<Issue("cut too long", i - 1, -1)>> ELSE <<>>)
         \o CutDurationIssues(cs, i + 1, lo, hi)

RECURSIVE SceneDurationIssues(_, _, _)
SceneDurationIssues(ss, i, lo) ==
    IF i > Len(ss) THEN <<>>
    ELSE (IF ss[i].duration < lo THEN <<Issue("scene too short", i - 1, -1)>> ELSE <<>>)
         \o SceneDurationIssues(ss, i + 1, lo)

validate_timeline ==
    OverlapIssues(cuts, 1, 2)
    \o CutDurationIssues(cuts, 1, min_cut_duration, max_cut_duration)
    \o SceneDurationIssues(scenes, 1, min_scene_duration)

ValidateTimeline ==
    /\ op' = "validate_timeline"
    /\ args' = <<>>
    /\ ret' = Returned(validate_timeline # <<>>, validate_timeline)
    /\ UNCHANGED <<cuts, scenes, timeline_duration, min_cut_duration,
                   max_cut_duration, min_scene_duration, file>>

(***************************************************************************)
(* Zigzag order.                                                           *)
(***************************************************************************)
\* list(dict.fromkeys(sequence)): keeps the first occurrence of each element
RECURSIVE Dedupe(_, _)
Dedupe(seq, acc) ==
    IF seq = <<>> THEN acc
    ELSE Dedupe(Tail(seq), IF InSeq(Head(seq), acc) THEN acc ELSE Append(acc, Head(seq)))

AddMissing_skipped(n, i, seq) == seq

\* "for i in range(n): if i not in sequence: sequence.append(i)"
RECURSIVE AddMissing(_, _, _)
AddMissing(n, i, seq) ==
    IF i >= n THEN seq
    ELSE AddMissing(n, i + 1, IF InSeq(i, seq) THEN seq ELSE Append(seq, i))

RECURSIVE TM_ZigzagLoop_halved(_, _, _)
TM_ZigzagLoop_halved(n, i, sequence) ==
    IF i >= n THEN sequence
    ELSE IF i % 2 = 0
         THEN TM_ZigzagLoop_halved(n, i + 1,
                 IF i < n THEN Append(sequence, i \div 2) ELSE sequence)
         ELSE LET reverse_index == n - 1 - (i \div 2)
              IN  TM_ZigzagLoop_halved(n, i + 1,
                     IF reverse_index > i /\ reverse_index < n
                     THEN Append(sequence, reverse_index) ELSE sequence)

\* main loop of TimelineManager.create_zigzag_sequence, from index i on
RECURSIVE TM_ZigzagLoop(_, _, _)
TM_ZigzagLoop(n, i, sequence) ==
    IF i >= n THEN sequence
    ELSE IF i % 2 = 0
         THEN TM_ZigzagLoop(n, i + 1, IF i < n THEN Append(sequence, i) ELSE sequence)
         ELSE LET reverse_index == n - 1 - (i \div 2)
              IN  TM_ZigzagLoop(n, i + 1,
                     IF reverse_index > i /\ reverse_index < n
                     THEN Append(sequence, reverse_index) ELSE sequence)

TM_create_zigzag_sequence(cs) ==
    LET n == Len(cs)
    IN  AddMissing(n, 0, Dedupe(TM_ZigzagLoop(n, 0, <<>>), <<>>))

CreateZigzagSequence ==
    /\ op' = "create_zigzag_sequence"
    /\ args' = <<>>
    /\ ret' = Returned(cuts # <<>>, TM_create_zigzag_sequence(cuts))
    /\ UNCHANGED <<cuts, scenes, timeline_duration, min_cut_duration,
                   max_cut_duration, min_scene_duration, file>>

(***************************************************************************)
(* Inputs of the TimelineManager's callers.                                *)
(***************************************************************************)
\* <<start, end>> pairs handed to add_cut: too short, valid (some overlapping),
\* too long
CutInputs == {<<0, 2>>, <<0, 4>>, <<2, 6>>, <<0, 8>>}
\* <<start, end>> pairs handed to add_scene: too short and valid
SceneInputs == {<<0, 2>>, <<0, 4>>, <<4, 8>>}
SceneIds == {DefaultSceneId} \cup (0..(MaxScenes - 1))
CutIds == 0..MaxCuts

(***************************************************************************)
(* SceneDetector.  detect_scenes works in ticks of 1/TicksPerSecond s so   *)
(* that frame_idx / fps is exact; a correlation is given in tenths.        *)
(***************************************************************************)
TicksPerSecond == 2
Seconds(n) == n * TicksPerSecond

\* An exception: its type and its message, the message as the sequence of the
\* texts it is made of (an f-string's literal part, then what it interpolates).
Exception(type, message) == [type |-> type, message |-> message]

\* "except Exception as e: raise RuntimeError(f'Scene detection failed: {e}')";
\* cap is the state of the capture handle, reads the number of cap.read() calls
Raised(e, cap, reads) ==
    [status |-> "raised",
     error  |-> Exception("RuntimeError", <<"Scene detection failed">> \o e.message),
     cap    |-> cap,
     reads  |-> reads]

Return(value, cap, reads) ==
    [status |-> "returned", value |-> value, cap |-> cap, reads |-> reads]

CannotOpen == Exception("RuntimeError", <<"Cannot open video file", "video_path">>)
DecodeError == Exception("cv2.error", <<"OpenCV error">>)
ZeroDivisionError == Exception("ZeroDivisionError", <<"float division by zero">>)

\* "current_time - scene_start >= self.min_scene_duration", also for the last scene
LongEnough_unchecked(now, scene_start, min_dur) == TRUE

LongEnough(now, scene_start, min_dur) == now - scene_start >= min_dur

SceneChange_inclusive(correlation, sensitivity) == correlation <= 10 - sensitivity

\* "correlation < (1.0 - self.sensitivity)", both in tenths
SceneChange(correlation, sensitivity) == correlation < 10 - sensitivity

\* The frame loop of detect_scenes from frame_idx on, then the last scene.
\* v.readable frames can be read, v.corr[k] is the correlation of frame k with
\* the frame before it, and decoding frame number v.error_at raises.
RECURSIVE DetectLoop(_, _, _, _, _, _, _)
DetectLoop(v, sensitivity, min_dur, frame_idx, prev_hist, scene_list, scene_start) ==
    IF frame_idx < v.frame_count /\ frame_idx < v.readable
    THEN IF v.error_at = frame_idx + 1
         THEN Raised(DecodeError, "open", frame_idx + 1)
         ELSE IF prev_hist /\ SceneChange(v.corr[frame_idx], sensitivity)
         THEN IF v.fps = 0
              THEN Raised(ZeroDivisionError, "open", frame_idx + 1)
              ELSE LET current_time == (frame_idx * TicksPerSecond) \div v.fps
                   IN  IF LongEnough(current_time, scene_start, min_dur)
                       THEN DetectLoop(v, sensitivity, min_dur, frame_idx + 1, TRUE,
                                       Append(scene_list, <<scene_start, current_time>>),
                                       current_time)
                       ELSE DetectLoop(v, sensitivity, min_dur, frame_idx + 1, TRUE,
                                       scene_list, scene_start)
         ELSE DetectLoop(v, sensitivity, min_dur, frame_idx + 1, TRUE,
                         scene_list, scene_start)
    ELSE LET reads == IF frame_idx < v.frame_count THEN frame_idx + 1 ELSE frame_idx
         IN  IF v.fps = 0
             THEN Raised(ZeroDivisionError, "open", reads)
             ELSE LET total_duration == (v.frame_count * TicksPerSecond) \div v.fps
                  IN  Return(IF LongEnough(total_duration, scene_start, min_dur)
                             THEN Append(scene_list, <<scene_start, total_duration>>)
                             ELSE scene_list,
                             "released", reads)

SD_detect_scenes(v, sensitivity, min_dur) ==
    IF ~v.opened
    THEN Raised(CannotOpen, "unopened", 0)
    ELSE DetectLoop(v, sensitivity, min_dur, 0, FALSE, <<>>, 0)

\* the dictionary appended for a scene: cut_id is the position in the output
FairUseCut_sceneidx(scene_idx, cut_start, cut_duration, cs) ==
    [scene_id |-> scene_idx,
     start    |-> cut_start,
     end      |-> cut_start + cut_duration,
     duration |-> cut_duration,
     cut_id   |-> scene_idx]

FairUseCut(scene_idx, cut_start, cut_duration, cs) ==
    [scene_id |-> scene_idx,
     start    |-> cut_start,
     end      |-> cut_start + cut_duration,
     duration |-> cut_duration,
     cut_id   |-> Len(cs)]

\* The loop of generate_fair_use_cuts from scene scene_idx (0-based) on: every
\* cut list the random draws allow.
RECURSIVE FairUseLoop(_, _, _, _, _)
FairUseLoop(scene_list, min_duration, max_duration, scene_idx, cs) ==
    IF scene_idx >= Len(scene_list) THEN {cs}
    ELSE LET start == scene_list[scene_idx + 1][1]
             end == scene_list[scene_idx + 1][2]
             scene_duration == end - start
         IN  IF scene_duration < min_duration
             THEN FairUseLoop(scene_list, min_duration, max_duration, scene_idx + 1, cs)
             ELSE UNION { UNION {
                    FairUseLoop(scene_list, min_duration, max_duration, scene_idx + 1,
                                Append(cs, FairUseCut(scene_idx, cut_start,
                                                      cut_duration, cs)))
                    : cut_start \in Uniform(start, end - cut_duration) }
                    : cut_duration \in Uniform(min_duration,
                                               Min(max_duration, scene_duration)) }

SD_generate_fair_use_cuts(scene_list, min_duration, max_duration) ==
    FairUseLoop(scene_list, min_duration, max_duration, 0, <<>>)

\* main loop of SceneDetector.create_zigzag_sequence, from index i on
RECURSIVE SD_ZigzagLoop(_, _, _)
SD_ZigzagLoop(n, i, sequence) ==
    IF i >= n THEN sequence
    ELSE IF i % 2 = 0
         THEN SD_ZigzagLoop(n, i + 1, IF i < n THEN Append(sequence, i) ELSE sequence)
         ELSE LET reverse_index == n - 1 - (i \div 2)
              IN  SD_ZigzagLoop(n, i + 1,
                     IF reverse_index > i /\ reverse_index < n
                     THEN Append(sequence, reverse_index) ELSE sequence)

SD_create_zigzag_sequence(cs) ==
    LET n == Len(cs)
    IN  AddMissing(n, 0, Dedupe(SD_ZigzagLoop(n, 0, <<>>), <<>>))

(***************************************************************************)
(* The editing session.                                                    *)
(***************************************************************************)
NoCall == [fn |-> "none"]
NoReturn == [status |-> "none"]
NoPipeline == [pc |-> "none"]
NoTempManager == [op |-> "none"]
\* TimelineWidget.__init__: nothing selected (0 stands for None)
NoWidget == [selected_cut |-> 0, selected_scene |-> 0, drag_start_x |-> 0,
             is_dragging |-> FALSE, op |-> "init"]
Pending == [status |-> "pending"]

InitTM ==
    /\ cuts = <<>>
    /\ scenes = <<>>
    /\ timeline_duration = 0
    /\ min_cut_duration = DefaultMinCutDuration
    /\ max_cut_duration = DefaultMaxCutDuration
    /\ min_scene_duration = DefaultMinSceneDuration
    /\ file = MissingFile
    /\ op = "init"
    /\ args = <<>>
    /\ ret = Returned(FALSE, <<>>)

Init ==
    /\ InitTM
    /\ call = NoCall
    /\ result = NoReturn
    /\ pipeline = NoPipeline
    /\ temp = NoTempManager
    /\ widget = NoWidget

Next ==
    \/ (\E c \in CutInputs, id \in SceneIds : AddCut(c[1], c[2], id))
          /\ UNCHANGED <<call, result, pipeline, temp, widget>>
    \/ (\E id \in CutIds : RemoveCut(id)) /\ UNCHANGED <<call, result, pipeline, temp, widget>>
    \/ (\E sc \in SceneInputs : AddScene(sc[1], sc[2], MaxScenes))
          /\ UNCHANGED <<call, result, pipeline, temp, widget>>
    \/ GenerateCutsFromScenes /\ UNCHANGED <<call, result, pipeline, temp, widget>>
    \/ ClearTimeline /\ UNCHANGED <<call, result, pipeline, temp, widget>>
    \/ SaveTimeline /\ UNCHANGED <<call, result, pipeline, temp, widget>>
    \/ (\E path \in Paths : LoadTimeline(path)) /\ UNCHANGED <<call, result, pipeline, temp, widget>>
    \/ ValidateTimeline /\ UNCHANGED <<call, result, pipeline, temp, widget>>
    \/ CreateZigzagSequence /\ UNCHANGED <<call, result, pipeline, temp, widget>>

Spec == Init /\ [][Next]_vars

\* The session restricted to the structural mutators.
NextMutators ==
    \/ (\E c \in CutInputs, id \in SceneIds : AddCut(c[1], c[2], id))
          /\ UNCHANGED <<call, result, pipeline, temp, widget>>
    \/ (\E id \in CutIds : RemoveCut(id)) /\ UNCHANGED <<call, result, pipeline, temp, widget>>
    \/ (\E sc \in SceneInputs : AddScene(sc[1], sc[2], MaxScenes))
          /\ UNCHANGED <<call, result, pipeline, temp, widget>>
    \/ GenerateCutsFromScenes /\ UNCHANGED <<call, result, pipeline, temp, widget>>
    \/ ClearTimeline /\ UNCHANGED <<call, result, pipeline, temp, widget>>

SpecMutators == Init /\ [][NextMutators]_vars

\* A session that lays out scenes and adds cuts to them.
MaxAddedScenes == 3

NextScenes ==
    \/ (\E sc \in SceneInputs : AddScene(sc[1], sc[2], MaxAddedScenes))
          /\ UNCHANGED <<call, result, pipeline, temp, widget>>
    \/ (\E c \in CutInputs, id \in SceneIds : AddCut(c[1], c[2], id))
          /\ UNCHANGED <<call, result, pipeline, temp, widget>>
    \/ ClearTimeline /\ UNCHANGED <<call, result, pipeline, temp, widget>>

SpecScenes == Init /\ [][NextScenes]_vars

(***************************************************************************)
(* Single calls of the pure functions.                                     *)
(***************************************************************************)
MaxFrames == 6
MaxCallScenes == 2

SeqsUpTo(S, n) == UNION {[1..k -> S] : k \in 0..n}

\* frame rates that divide the tick, and 0 (what an unreadable source reports)
FpsVals == {0} \cup {f \in 1..TicksPerSecond : TicksPerSecond % f = 0}
CorrVals == {5, 6, 10}
SensitivityVals == {3, 4}
MinSceneDurations == {Seconds(1), Seconds(DefaultMinSceneDuration)}
ErrorAtVals == {0, 2}

Videos ==
    {[opened |-> FALSE, fps |-> 0, frame_count |-> 0, readable |-> 0,
      corr |-> <<>>, error_at |-> 0]}
    \cup
    UNION { UNION {
        [opened: {TRUE}, fps: FpsVals, frame_count: {fc}, readable: {r},
         corr: [1..(IF r = 0 THEN 0 ELSE r - 1) -> CorrVals], error_at: ErrorAtVals]
        : r \in 0..fc } : fc \in 0..MaxFrames }

DetectCalls ==
    [fn: {"SceneDetector.detect_scenes"}, video: Videos,
     sensitivity: SensitivityVals, min_scene_duration: MinSceneDurations]

\* <<start, end>> of the scenes handed to the cut generators
CallScenePairs == {<<0, 2>>, <<0, 5>>, <<2, 6>>, <<5, 6>>, <<5, 2>>}
\* <<min_duration, max_duration>>: the defaults, a tighter pair, an inverted pair
DurationBounds == {<<DefaultMinCutDuration, DefaultMaxCutDuration>>, <<3, 4>>, <<4, 3>>}

FairUseCalls ==
    [fn: {"SceneDetector.generate_fair_use_cuts"},
     scenes: SeqsUpTo(CallScenePairs, MaxCallScenes), bounds: DurationBounds]

GenerateCalls ==
    [fn: {"TimelineManager.generate_cuts_from_scenes"},
     scenes: SeqsUpTo(CallScenePairs, MaxCallScenes), bounds: DurationBounds]

\* n cuts as the generators lay them out
CutDicts(n) == [k \in 1..n |-> [scene_id |-> k - 1, start |-> 3 * (k - 1),
                                end |-> 3 * k, duration |-> 3, cut_id |-> k - 1]]

\* n cuts of other lengths, listed from the last cut_id down, all of scene 0
CutDictsReversed(n) == [k \in 1..n |-> [scene_id |-> 0, start |-> 5 * (n - k),
                                        end |-> 5 * (n - k) + 4, duration |-> 4,
                                        cut_id |-> n - k]]

ZigzagCalls ==
    [fn: {"SceneDetector.create_zigzag_sequence",
          "TimelineManager.create_zigzag_sequence"},
     cuts: {CutDicts(n) : n \in 0..MaxZigzag}
           \cup {CutDictsReversed(n) : n \in 0..MaxZigzag}]

InitCalls ==
    /\ call \in DetectCalls \cup FairUseCalls \cup GenerateCalls \cup ZigzagCalls
    /\ result = Pending
    /\ pipeline = NoPipeline
    /\ temp = NoTempManager
    /\ widget = NoWidget
    /\ timeline_duration = 0
    /\ file = MissingFile
    /\ op = "init"
    /\ args = <<>>
    /\ ret = Returned(FALSE, <<>>)
    /\ min_scene_duration = DefaultMinSceneDuration
    /\ IF call.fn = "TimelineManager.generate_cuts_from_scenes"
       THEN /\ scenes = [k \in 1..Len(call.scenes) |->
                           TimelineScene(k - 1, call.scenes[k][1], call.scenes[k][2])]
            /\ min_cut_duration = call.bounds[1]
            /\ max_cut_duration = call.bounds[2]
       ELSE /\ scenes = <<>>
            /\ min_cut_duration = DefaultMinCutDuration
            /\ max_cut_duration = DefaultMaxCutDuration
    /\ IF call.fn = "TimelineManager.create_zigzag_sequence"
       THEN cuts = [k \in 1..Len(call.cuts) |->
                       TimelineCut(call.cuts[k].cut_id, call.cuts[k].start,
                                   call.cuts[k]["end"], call.cuts[k].scene_id)]
       ELSE cuts = <<>>

DetectScenes ==
    /\ call.fn = "SceneDetector.detect_scenes"
    /\ result = Pending
    /\ result' = SD_detect_scenes(call.video, call.sensitivity, call.min_scene_duration)
    /\ UNCHANGED <<tmvars, call, pipeline, temp, widget>>

GenerateFairUseCuts ==
    /\ call.fn = "SceneDetector.generate_fair_use_cuts"
    /\ result = Pending
    /\ \E cs \in SD_generate_fair_use_cuts(call.scenes, call.bounds[1], call.bounds[2]) :
          result' = [status |-> "returned", value |-> cs]
    /\ UNCHANGED <<tmvars, call, pipeline, temp, widget>>

SD_CreateZigzagSequence ==
    /\ call.fn = "SceneDetector.create_zigzag_sequence"
    /\ result = Pending
    /\ result' = [status |-> "returned", value |-> SD_create_zigzag_sequence(call.cuts)]
    /\ UNCHANGED <<tmvars, call, pipeline, temp, widget>>

TM_GenerateCutsFromScenes ==
    /\ call.fn = "TimelineManager.generate_cuts_from_scenes"
    /\ result = Pending
    /\ GenerateCutsFromScenes
    /\ result' = [status |-> "returned", value |-> cuts']
    /\ UNCHANGED <<call, pipeline, temp, widget>>

TM_CreateZigzagSequence ==
    /\ call.fn = "TimelineManager.create_zigzag_sequence"
    /\ result = Pending
    /\ CreateZigzagSequence
    /\ result' = [status |-> "returned", value |-> ret'.value]
    /\ UNCHANGED <<call, pipeline, temp, widget>>

NextCalls ==
    \/ DetectScenes
    \/ GenerateFairUseCuts
    \/ SD_CreateZigzagSequence
    \/ TM_GenerateCutsFromScenes
    \/ TM_CreateZigzagSequence

SpecCalls == InitCalls /\ [][NextCalls]_vars

(***************************************************************************)
(* AutomationPipeline.execute_full_pipeline (core/automation.py), run on a *)
(* pipeline that holds a SceneDetector and a VideoProcessor.  The external *)
(* tool calls (ffprobe, ffmpeg) succeed; call.video is the video that      *)
(* reaches scene detection.  pipeline.log lists the collaborator methods   *)
(* the pipeline has invoked, in order.                                     *)
(***************************************************************************)
DetectorSensitivity == 3
DetectorMinSceneDuration == 3
FairUseMaxDuration == 7

\* get_video_info(video)['duration'], in ticks
VideoDuration(v) == (v.frame_count * TicksPerSecond) \div v.fps

\* SceneDetector.filter_scene_breaks is called by the pipeline but not defined
\* in core/scene_detector.py; test_filter_scene_breaks has it keep the scenes
\* that last at least min_scene_duration.
RECURSIVE filter_scene_breaks(_, _)
filter_scene_breaks(scene_list, min_dur) ==
    IF scene_list = <<>> THEN <<>>
    ELSE (IF Head(scene_list)[2] - Head(scene_list)[1] >= min_dur
          THEN <<Head(scene_list)>> ELSE <<>>)
         \o filter_scene_breaks(Tail(scene_list), min_dur)

NoCuts_ignored(cs) == FALSE

\* "if not cuts:"
NoCuts(cs) == cs = <<>>

\* the clip trim_video cuts out of the video
Clip(start, end) == [clip |-> <<start, end>>]

\* "for i, cut_def in enumerate(zigzag_cuts_definitions)": cut_def['start'] on
\* an element that is an index, not a dictionary, raises TypeError
RECURSIVE ClipLoop(_, _, _)
ClipLoop(definitions, k, cut_files) ==
    IF k > Len(definitions) THEN [status |-> "done", cut_files |-> cut_files]
    ELSE LET cut_def == definitions[k]
         IN  IF cut_def \in Int
             THEN [status |-> "raised", cut_files |-> cut_files]
             ELSE ClipLoop(definitions, k + 1,
                           Append(cut_files,
                                  Clip(cut_def.start, cut_def.start + cut_def.duration)))

\* the "Zigzag reordering" loop of VideoProcessor.compile_zigzag_sequence
RECURSIVE VP_ZigzagList(_, _, _)
VP_ZigzagList(cuts_list, i, j) ==
    IF i > j THEN <<>>
    ELSE IF i = j THEN <<cuts_list[i]>>
    ELSE <<cuts_list[i], cuts_list[j]>> \o VP_ZigzagList(cuts_list, i + 1, j - 1)

\* the files compile_zigzag_sequence writes to its concat list, in order
VP_compile_zigzag_sequence(cuts_list) == VP_ZigzagList(cuts_list, 1, Len(cuts_list))

PipelineRaised(type, message) == [status |-> "raised", error |-> Exception(type, message)]

Pipeline_Preprocess ==
    /\ pipeline.pc = "start"
    /\ pipeline' = [pipeline EXCEPT
                      !.pc = "detect",
                      !.log = @ \o <<"get_video_info", "trim_video",
                                     "remove_silent_parts">>]
    /\ UNCHANGED <<tmvars, call, result, temp, widget>>

Pipeline_DetectScenes ==
    /\ pipeline.pc = "detect"
    /\ LET r == SD_detect_scenes(call.video, DetectorSensitivity,
                                 Seconds(DetectorMinSceneDuration))
       IN  pipeline' =
             IF r.status = "raised"
             THEN [pipeline EXCEPT
                     !.pc = "done",
                     !.log = @ \o <<"detect_scenes">>,
                     !.outcome = [status |-> "raised", error |-> r.error]]
             ELSE [pipeline EXCEPT
                     !.pc = "generate",
                     !.log = @ \o <<"detect_scenes", "filter_scene_breaks">>,
                     !.scenes = filter_scene_breaks(r.value,
                                                    Seconds(DetectorMinSceneDuration))]
    /\ UNCHANGED <<tmvars, call, result, temp, widget>>

\* generate_fair_use_cuts(filtered_scenes, video_duration): the second
\* positional argument is min_duration
Pipeline_GenerateCuts ==
    /\ pipeline.pc = "generate"
    /\ \E cs \in SD_generate_fair_use_cuts(pipeline.scenes, VideoDuration(call.video),
                                           Seconds(FairUseMaxDuration)) :
          pipeline' =
             IF NoCuts(cs)
             THEN [pipeline EXCEPT
                     !.pc = "done",
                     !.log = @ \o <<"get_video_info", "generate_fair_use_cuts">>,
                     !.cuts = cs,
                     !.outcome = PipelineRaised("RuntimeError",
                                    <<"Could not generate any cuts from the provided video.">>)]
             ELSE [pipeline EXCEPT
                     !.pc = "sequence",
                     !.log = @ \o <<"get_video_info", "generate_fair_use_cuts">>,
                     !.cuts = cs]
    /\ UNCHANGED <<tmvars, call, result, temp, widget>>

\* steps 5 to 7: zigzag order, one clip per definition, concatenation, audio
Pipeline_Sequence ==
    /\ pipeline.pc = "sequence"
    /\ LET zigzag_cuts_definitions == SD_create_zigzag_sequence(pipeline.cuts)
           clips == ClipLoop(zigzag_cuts_definitions, 1, <<>>)
           trims == [k \in 1..Len(clips.cut_files) |-> "trim_video"]
       IN  pipeline' =
             IF clips.status = "raised"
             THEN [pipeline EXCEPT
                     !.pc = "done",
                     !.log = @ \o <<"create_zigzag_sequence">> \o trims,
                     !.cut_files = clips.cut_files,
                     !.outcome = PipelineRaised("TypeError",
                                    <<"'int' object is not subscriptable">>)]
             ELSE [pipeline EXCEPT
                     !.pc = "done",
                     !.log = @ \o <<"create_zigzag_sequence">> \o trims
                               \o <<"compile_zigzag_sequence", "extract_audio">>,
                     !.cut_files = clips.cut_files,
                     !.concat = VP_compile_zigzag_sequence(clips.cut_files),
                     !.outcome = [status |-> "returned",
                                  value  |-> <<"final_video", "final_audio">>]]
    /\ UNCHANGED <<tmvars, call, result, temp, widget>>

PipelineCalls ==
    [fn: {"AutomationPipeline.execute_full_pipeline"},
     video: {v \in Videos : v.opened}]

InitPipeline ==
    /\ InitTM
    /\ call \in PipelineCalls
    /\ result = NoReturn
    /\ temp = NoTempManager
    /\ widget = NoWidget
    /\ pipeline = [pc |-> "start", log |-> <<>>, scenes |-> <<>>, cuts |-> <<>>,
                   cut_files |-> <<>>, concat |-> <<>>, outcome |-> NoReturn]

NextPipeline ==
    \/ Pipeline_Preprocess
    \/ Pipeline_DetectScenes
    \/ Pipeline_GenerateCuts
    \/ Pipeline_Sequence

SpecPipeline == InitPipeline /\ [][NextPipeline]_vars

(***************************************************************************)
(* TempManager (core/temp_manager.py) and the files of its temp directory. *)
(* temp.temp_dir is self.temp_dir ("none" for None), temp.temp_files is    *)
(* self.temp_files.  The file system: temp.dir_exists says whether the     *)
(* temp directory is on disk, temp.subdirs which of its subdirectories,    *)
(* temp.disk lists the files on disk from the oldest modification time to  *)
(* the newest.  temp.handed_out is every path returned so far by           *)
(* get_temp_file or get_cache_file; temp.dir_removed is set once           *)
(* cleanup_all has removed the directory; temp.other_calls is set once a   *)
(* method other than get_temp_file has been called.  File system calls on  *)
(* the manager's own directory succeed.                                    *)
(***************************************************************************)
MaxTempFiles == 2
MaxTempNames == 4
CacheIds == {1}
Subdirs == {"cache", "clips"}

TempPath(dir, name) == [dir |-> dir, name |-> name]

\* os.path.exists(os.path.dirname(path)) for a path under the temp directory
ParentExists(t, path) ==
    /\ t.dir_exists
    /\ path.dir # "" => path.dir \in t.subdirs

SeqMinus(seq, S) == SelectSeq(seq, LAMBDA x : x \notin S)
Range(seq) == {seq[k] : k \in 1..Len(seq)}

CleanupEnabled_always(flag) == TRUE

\* "if not self.cleanup_on_exit: return"
CleanupEnabled(flag) == flag

\* create_temp_dir: tempfile.mkdtemp makes a new directory
create_temp_dir(t) ==
    IF t.temp_dir = "none"
    THEN [t EXCEPT !.temp_dir = "ffmpeg_editor_", !.dir_exists = TRUE]
    ELSE t

register_temp_file(t, filepath) ==
    IF InSeq(filepath, t.temp_files) THEN t
    ELSE [t EXCEPT !.temp_files = Append(@, filepath)]

\* cleanup_old_files: the oldest fifth (at least one) of the registered files
\* that exist on disk are removed and unregistered
cleanup_old_files(t) ==
    IF Len(t.temp_files) < t.max_temp_files THEN t
    ELSE LET sorted_files == SelectSeq(t.disk, LAMBDA f : InSeq(f, t.temp_files))
             k == IF Len(sorted_files) \div 5 > 1 THEN Len(sorted_files) \div 5 ELSE 1
             files_to_remove == Range(SubSeq(sorted_files, 1, Min(k, Len(sorted_files))))
         IN  [t EXCEPT !.disk = SeqMinus(@, files_to_remove),
                       !.temp_files = SeqMinus(@, files_to_remove)]

\* cleanup_all: registered files that exist are removed and unregistered, then
\* the temp directory is removed with everything in it
cleanup_all(t) ==
    IF ~CleanupEnabled(t.cleanup_on_exit) THEN t
    ELSE LET existing == Range(t.temp_files) \cap Range(t.disk)
             files_cleaned == [t EXCEPT !.disk = SeqMinus(@, existing),
                                        !.temp_files = SeqMinus(@, existing)]
         IN  IF t.temp_dir # "none" /\ t.dir_exists
             THEN [files_cleaned EXCEPT !.disk = <<>>, !.dir_exists = FALSE,
                                        !.subdirs = {}, !.dir_removed = TRUE]
             ELSE files_cleaned

Temp_GetTempFile ==
    /\ temp.names < MaxTempNames
    /\ LET t1 == create_temp_dir(temp)
           t2 == IF Len(t1.temp_files) >= t1.max_temp_files
                 THEN cleanup_old_files(t1) ELSE t1
           temp_file == TempPath("", t2.names + 1)
       IN  temp' = [register_temp_file(t2, temp_file) EXCEPT
                      !.names = @ + 1,
                      !.handed_out = @ \cup {temp_file},
                      !.op = "get_temp_file",
                      !.ret = <<temp_file>>]
    /\ UNCHANGED <<tmvars, call, result, pipeline, widget>>

Temp_GetCacheFile(identifier) ==
    /\ LET t1 == create_temp_dir(temp)
           t2 == [t1 EXCEPT !.dir_exists = TRUE, !.subdirs = @ \cup {"cache"}]
           cache_file == TempPath("cache", identifier)
       IN  temp' = [register_temp_file(t2, cache_file) EXCEPT
                      !.handed_out = @ \cup {cache_file},
                      !.other_calls = TRUE,
                      !.op = "get_cache_file",
                      !.ret = <<cache_file>>]
    /\ UNCHANGED <<tmvars, call, result, pipeline, widget>>

Temp_GetTempDir(subdir_name) ==
    /\ LET t1 == create_temp_dir(temp)
       IN  temp' = [t1 EXCEPT !.dir_exists = TRUE,
                              !.subdirs = @ \cup {subdir_name},
                              !.other_calls = TRUE,
                              !.op = "get_temp_dir",
                              !.ret = <<TempPath(subdir_name, 0)>>]
    /\ UNCHANGED <<tmvars, call, result, pipeline, widget>>

\* the caller writes a file it was handed out (as the tests and FFmpeg do)
Temp_WriteFile(path) ==
    /\ path \in temp.handed_out
    /\ ParentExists(temp, path)
    /\ temp' = [temp EXCEPT !.disk = Append(SeqMinus(@, {path}), path),
                            !.op = "write",
                            !.ret = <<path>>]
    /\ UNCHANGED <<tmvars, call, result, pipeline, widget>>

\* cleanup_all, called directly, by cleanup_on_error or by __del__
Temp_CleanupAll(via) ==
    /\ temp' = [cleanup_all(temp) EXCEPT !.other_calls = TRUE, !.op = via, !.ret = <<>>]
    /\ UNCHANGED <<tmvars, call, result, pipeline, widget>>

Temp_CleanupOldFiles ==
    /\ temp' = [cleanup_old_files(temp) EXCEPT !.other_calls = TRUE, !.op = "cleanup_old_files", !.ret = <<>>]
    /\ UNCHANGED <<tmvars, call, result, pipeline, widget>>

InitTemp ==
    /\ InitTM
    /\ call = NoCall
    /\ result = NoReturn
    /\ pipeline = NoPipeline
    /\ \E flag \in BOOLEAN :
          temp = [temp_dir |-> "none", temp_files |-> <<>>,
                  cleanup_on_exit |-> flag, max_temp_files |-> MaxTempFiles,
                  dir_exists |-> FALSE, subdirs |-> {}, disk |-> <<>>,
                  handed_out |-> {}, dir_removed |-> FALSE,
                  other_calls |-> FALSE, names |-> 0,
                  op |-> "init", ret |-> <<>>]
    /\ widget = NoWidget

AllTempPaths ==
    {TempPath("", n) : n \in 1..MaxTempNames} \cup {TempPath("cache", i) : i \in CacheIds}

NextTemp ==
    \/ Temp_GetTempFile
    \/ \E identifier \in CacheIds : Temp_GetCacheFile(identifier)
    \/ \E subdir_name \in Subdirs : Temp_GetTempDir(subdir_name)
    \/ \E path \in AllTempPaths : Temp_WriteFile(path)
    \/ \E via \in {"cleanup_all", "cleanup_on_error", "__del__"} : Temp_CleanupAll(via)
    \/ Temp_CleanupOldFiles

SpecTemp == InitTemp /\ [][NextTemp]_vars

(***************************************************************************)
(* TimelineWidget (gui/timeline_widget.py): the mouse handlers of the      *)
(* timeline canvas.  widget.selected_cut and widget.selected_scene are     *)
(* positions in the Timeline's cuts and scenes, 0 for None.  Canvas        *)
(* coordinates are pixels at the default zoom level of 1.0; in_band says   *)
(* whether event.y lies in the band where the cuts are drawn.              *)
(***************************************************************************)
PixelsPerSecond == 50
MaxClickTime == 8

time_to_x(time) == (time * PixelsPerSecond) \div TicksPerSecond
x_to_time(x) ==
    IF x >= 0 THEN (x * TicksPerSecond) \div PixelsPerSecond
    ELSE 0 - (((0 - x) * TicksPerSecond) \div PixelsPerSecond)

CanvasXs == {time_to_x(t) : t \in 0..MaxClickTime}

\* get_cut_at_position: position of the first cut drawn at (x, y), 0 if none
get_cut_at_position(x, in_band) ==
    LET hit(k) == time_to_x(cuts[k].start_time) <= x /\ x <= time_to_x(cuts[k].end_time)
                     /\ in_band
    IN  IF \E k \in 1..Len(cuts) : hit(k)
        THEN CHOOSE k \in 1..Len(cuts) : hit(k) /\ \A j \in 1..(k - 1) : ~hit(j)
        ELSE 0

get_scene_at_position(x) ==
    LET hit(k) == time_to_x(scenes[k].start_time) <= x /\ x <= time_to_x(scenes[k].end_time)
    IN  IF \E k \in 1..Len(scenes) : hit(k)
        THEN CHOOSE k \in 1..Len(scenes) : hit(k) /\ \A j \in 1..(k - 1) : ~hit(j)
        ELSE 0

Deselected(seq) == [k \in 1..Len(seq) |-> [seq[k] EXCEPT !.selected = FALSE]]

\* clear_selection
clear_selection(w) ==
    [w EXCEPT !.selected_cut = 0, !.selected_scene = 0, !.is_dragging = FALSE]

\* select_cut: "self.selected_cut = self.selected_cut" keeps the value that
\* clear_selection has just set
select_cut(w) ==
    LET cleared == clear_selection(w)
    IN  [cleared EXCEPT !.selected_cut = cleared.selected_cut, !.is_dragging = TRUE]

select_scene(w, k) == [clear_selection(w) EXCEPT !.selected_scene = k]

is_valid_cut_position(cut, start_time, end_time) ==
    LET duration == end_time - start_time
    IN  /\ ~(duration < min_cut_duration)
        /\ ~(duration > max_cut_duration)
        /\ \A k \in 1..Len(cuts) :
              cuts[k].cut_id # cut.cut_id =>
                  ~(start_time < cuts[k].end_time /\ end_time > cuts[k].start_time)

Widget_Click(x, in_band) ==
    LET clicked_cut == get_cut_at_position(x, in_band)
        clicked_scene == get_scene_at_position(x)
    IN  /\ cuts' = IF clicked_cut # 0
                   THEN [Deselected(cuts) EXCEPT ![clicked_cut].selected = TRUE]
                   ELSE Deselected(cuts)
        /\ scenes' = IF clicked_cut = 0 /\ clicked_scene # 0
                     THEN [Deselected(scenes) EXCEPT ![clicked_scene].selected = TRUE]
                     ELSE Deselected(scenes)
        /\ widget' = IF clicked_cut # 0
                     THEN [select_cut(widget) EXCEPT !.drag_start_x = x,
                                                     !.op = "on_canvas_click"]
                     ELSE IF clicked_scene # 0
                     THEN [select_scene(widget, clicked_scene) EXCEPT !.op = "on_canvas_click"]
                     ELSE [clear_selection(widget) EXCEPT !.op = "on_canvas_click"]
        /\ UNCHANGED <<timeline_duration, min_cut_duration, max_cut_duration,
                       min_scene_duration, file, op, args, ret,
                       call, result, pipeline, temp>>

Widget_Drag(x) ==
    LET k == widget.selected_cut
        time_delta == x_to_time(x - widget.drag_start_x)
        new_start_time == cuts[k].start_time + time_delta
        new_end_time == cuts[k].end_time + time_delta
    IN  /\ IF k # 0 /\ widget.is_dragging
              /\ is_valid_cut_position(cuts[k], new_start_time, new_end_time)
           THEN /\ cuts' = [cuts EXCEPT ![k].start_time = new_start_time,
                                        ![k].end_time = new_end_time]
                /\ widget' = [widget EXCEPT !.drag_start_x = x, !.op = "on_canvas_drag"]
           ELSE /\ cuts' = cuts
                /\ widget' = [widget EXCEPT !.op = "on_canvas_drag"]
        /\ UNCHANGED <<scenes, timeline_duration, min_cut_duration, max_cut_duration,
                       min_scene_duration, file, op, args, ret,
                       call, result, pipeline, temp>>

Widget_Release ==
    /\ widget' = [widget EXCEPT !.is_dragging = FALSE, !.op = "on_canvas_release"]
    /\ UNCHANGED <<tmvars, call, result, pipeline, temp>>

\* A session in the editing surface: cuts and scenes are added, the mouse is
\* clicked, dragged and released.
NextWidget ==
    \/ (\E c \in CutInputs, id \in SceneIds : AddCut(c[1], c[2], id))
          /\ UNCHANGED <<call, result, pipeline, temp, widget>>
    \/ (\E sc \in SceneInputs : AddScene(sc[1], sc[2], MaxScenes))
          /\ UNCHANGED <<call, result, pipeline, temp, widget>>
    \/ \E x \in CanvasXs, in_band \in BOOLEAN : Widget_Click(x, in_band)
    \/ \E x \in CanvasXs : Widget_Drag(x)
    \/ Widget_Release

SpecWidget == Init /\ [][NextWidget]_vars

(***************************************************************************)
(* Properties of the pure functions (checked under SpecCalls).             *)
(***************************************************************************)
ZigzagReturned ==
    /\ call.fn \in {"SceneDetector.create_zigzag_sequence",
                    "TimelineManager.create_zigzag_sequence"}
    /\ result.status = "returned"

IsPermutation(seq, n) ==
    /\ Len(seq) = n
    /\ \A x \in 0..(n - 1) : Cardinality({k \in 1..Len(seq) : seq[k] = x}) = 1

\* C1: create_zigzag_sequence (SceneDetector's and TimelineManager's) returns a
\* permutation of 0..n-1 for every cut count n: length n, every index exactly
\* once; n = 0 gives the empty sequence and n = 1 gives <<0>>.
C1_ZigzagIsPermutation ==
    ZigzagReturned =>
        /\ IsPermutation(result.value, Len(call.cuts))
        /\ Len(call.cuts) = 0 => result.value = <<>>
        /\ Len(call.cuts) = 1 => result.value = <<0>>

C1_Witness ==
    /\ ZigzagReturned
    /\ call.fn = "TimelineManager.create_zigzag_sequence"
    /\ Len(call.cuts) = 5
    /\ result.value = <<0, 4, 2, 1, 3>>

\* low, high, low+1, high-1, ... until the pointers meet or cross
RECURSIVE PointerWalk(_, _)
PointerWalk(i, j) ==
    IF i > j THEN <<>>
    ELSE IF i = j THEN <<i>>
    ELSE <<i, j>> \o PointerWalk(i + 1, j - 1)

\* C2: for every n the zigzag order returned by create_zigzag_sequence is the
\* alternating-ends order low, high, low+1, high-1, ... with the middle index
\* once for odd n (n = 4: 0,3,1,2; n = 5: 0,4,1,3,2).
C2_ZigzagIsPointerWalk ==
    ZigzagReturned => result.value = PointerWalk(0, Len(call.cuts) - 1)

FairUseReturned ==
    /\ call.fn = "SceneDetector.generate_fair_use_cuts"
    /\ result.status = "returned"

GenerateReturned ==
    /\ call.fn = "TimelineManager.generate_cuts_from_scenes"
    /\ result.status = "returned"

\* C3: with min_duration <= max_duration, every cut generated by
\* generate_fair_use_cuts / generate_cuts_from_scenes has a duration within
\* [min_duration, max_duration] and lies inside the scene its scene_id names,
\* whatever values are drawn.
C3_GeneratedCutsWithinBounds ==
    /\ (FairUseReturned /\ call.bounds[1] <= call.bounds[2]) =>
          \A k \in 1..Len(result.value) :
             LET c == result.value[k]
                 scene == call.scenes[c.scene_id + 1]
             IN  /\ call.bounds[1] <= c.duration /\ c.duration <= call.bounds[2]
                 /\ c["end"] - c.start = c.duration
                 /\ scene[1] <= c.start /\ c["end"] <= scene[2]
    /\ (GenerateReturned /\ min_cut_duration <= max_cut_duration) =>
          \A k \in 1..Len(cuts) :
             LET c == cuts[k]
             IN  /\ min_cut_duration <= c.duration /\ c.duration <= max_cut_duration
                 /\ c.end_time - c.start_time = c.duration
                 /\ \E j \in 1..Len(scenes) :
                       /\ scenes[j].scene_id = c.scene_id
                       /\ scenes[j].start_time <= c.start_time
                       /\ c.end_time <= scenes[j].end_time

\* a cut strictly inside a scene longer than max_duration, from either generator
C3_Witness ==
    /\ GenerateReturned
    /\ call.bounds = <<3, 4>>
    /\ call.scenes = <<<<0, 2>>, <<0, 5>>>>
    /\ Len(cuts) = 1
    /\ cuts[1].start_time = 1 /\ cuts[1].end_time = 5 /\ cuts[1].scene_id = 1

\* 0-based indices of the scenes at least min_duration long, in scene order
RECURSIVE EligibleFrom(_, _, _)
EligibleFrom(scene_list, min_duration, i) ==
    IF i > Len(scene_list) THEN <<>>
    ELSE (IF scene_list[i][2] - scene_list[i][1] >= min_duration THEN <<i - 1>> ELSE <<>>)
         \o EligibleFrom(scene_list, min_duration, i + 1)

\* C4: generate_fair_use_cuts produces exactly one cut per scene of duration
\* >= min_duration and none for shorter scenes, in scene order; the k-th cut has
\* cut_id = k (0-based position in the output) and scene_id = its scene's index;
\* no eligible scene gives the empty list.
C4_OneCutPerEligibleScene ==
    FairUseReturned =>
        LET eligible == EligibleFrom(call.scenes, call.bounds[1], 1)
        IN  /\ Len(result.value) = Len(eligible)
            /\ \A k \in 1..Len(result.value) :
                  /\ result.value[k].cut_id = k - 1
                  /\ result.value[k].scene_id = eligible[k]

C4_Witness ==
    /\ FairUseReturned
    /\ call.scenes = <<<<0, 2>>, <<2, 6>>>>
    /\ call.bounds = <<3, 7>>
    /\ Len(result.value) = 1
    /\ result.value[1].cut_id = 0
    /\ result.value[1].scene_id = 1

DetectReturned ==
    /\ call.fn = "SceneDetector.detect_scenes"
    /\ result.status = "returned"

TotalDuration == (call.video.frame_count * TicksPerSecond) \div call.video.fps

\* C10: the scenes detect_scenes returns each last at least min_scene_duration,
\* are strictly ordered, start at 0 and are contiguous; the only uncovered part
\* of [0, total_duration) is a trailing segment shorter than min_scene_duration.
C10_ScenesContiguous ==
    DetectReturned =>
        LET ss == result.value
            n == Len(ss)
            covered == IF n = 0 THEN 0 ELSE ss[n][2]
        IN  /\ \A k \in 1..n : /\ ss[k][2] - ss[k][1] >= call.min_scene_duration
                               /\ ss[k][1] < ss[k][2]
            /\ n > 0 => ss[1][1] = 0
            /\ \A k \in 1..(n - 1) : ss[k + 1][1] = ss[k][2]
            /\ covered <= TotalDuration
            /\ covered < TotalDuration => TotalDuration - covered < call.min_scene_duration

\* two scenes and a dropped trailing segment
C10_Witness ==
    /\ DetectReturned
    /\ Len(result.value) = 2
    /\ result.value[2][2] < TotalDuration

DetectDone ==
    /\ call.fn = "SceneDetector.detect_scenes"
    /\ result.status \in {"returned", "raised"}

\* no compared sample has a similarity below 1.0 - sensitivity
NoSampleBelowThreshold ==
    \A k \in 1..Len(call.video.corr) : call.video.corr[k] >= 10 - call.sensitivity

\* C11: when no sample of the stream has similarity below 1.0 - sensitivity,
\* detect_scenes returns exactly one scene spanning [0, total_duration) if
\* total_duration >= min_scene_duration, and no scene if total_duration is
\* shorter than min_scene_duration.
C11_UniformStreamOneScene ==
    (DetectReturned /\ NoSampleBelowThreshold) =>
        IF TotalDuration >= call.min_scene_duration
        THEN result.value = << <<0, TotalDuration>> >>
        ELSE result.value = <<>>

\* a stream with a sample exactly at the threshold, long enough for one scene
C11_Witness ==
    /\ DetectReturned
    /\ NoSampleBelowThreshold
    /\ \E k \in 1..Len(call.video.corr) : call.video.corr[k] = 10 - call.sensitivity
    /\ call.min_scene_duration = Seconds(DefaultMinSceneDuration)
    /\ result.value = << <<0, TotalDuration>> >>

\* C12: when the source opens but the first read reports end of stream (zero
\* readable frames), whatever frame count and frame rate it reports,
\* detect_scenes returns the empty scene list and does not raise.
C12_NoReadableFramesNoScenes ==
    (DetectDone /\ call.video.opened /\ call.video.readable = 0) =>
        /\ result.status = "returned"
        /\ result.value = <<>>

\* pytest.raises(..., match = pattern): pattern is found in str(exception)
Matches(message, pattern) == \E k \in 1..Len(message) : message[k] = pattern

\* C13: when the source cannot be opened, detect_scenes raises a RuntimeError
\* whose message matches "Could not open video file", without reading any frame
\* and without returning a scene list.
C13_CannotOpenRaises ==
    (DetectDone /\ ~call.video.opened) =>
        /\ result.status = "raised"
        /\ result.error.type = "RuntimeError"
        /\ Matches(result.error.message, "Could not open video file")
        /\ result.reads = 0

\* what the main loop of the called create_zigzag_sequence has built when it ends
MainLoopSequence ==
    IF call.fn = "SceneDetector.create_zigzag_sequence"
    THEN SD_ZigzagLoop(Len(call.cuts), 0, <<>>)
    ELSE TM_ZigzagLoop(Len(call.cuts), 0, <<>>)

\* C21: in create_zigzag_sequence the fallback is never needed: for every n the
\* sequence built by the main loop is already a permutation of 0..n-1, so
\* removing duplicates removes nothing and the completion step appends nothing.
C21_ZigzagFallbackNeverNeeded ==
    ZigzagReturned =>
        /\ IsPermutation(MainLoopSequence, Len(call.cuts))
        /\ result.value = MainLoopSequence

\* C22: SceneDetector.create_zigzag_sequence follows its documented pattern
\* 0,2,1,3,...: four cuts give [0, 2, 1, 3], three cuts [0, 2, 1], no cut [].
C22_ZigzagDocumentedPattern ==
    (ZigzagReturned /\ call.fn = "SceneDetector.create_zigzag_sequence") =>
        /\ Len(call.cuts) = 4 => result.value = <<0, 2, 1, 3>>
        /\ Len(call.cuts) = 3 => result.value = <<0, 2, 1>>
        /\ Len(call.cuts) = 0 => result.value = <<>>

\* the cuts of a call as the TimelineCut objects a Timeline would hold
AsTimelineCuts(cs) ==
    [k \in 1..Len(cs) |-> TimelineCut(cs[k].cut_id, cs[k].start, cs[k]["end"],
                                      cs[k].scene_id)]

\* C28: for every n, SceneDetector.create_zigzag_sequence on a list of n cuts
\* and TimelineManager.create_zigzag_sequence on a Timeline holding n cuts
\* return the same index sequence, whatever the cuts contain.
C28_ZigzagImplementationsAgree ==
    ZigzagReturned =>
        /\ result.value = SD_create_zigzag_sequence(CutDicts(Len(call.cuts)))
        /\ result.value = TM_create_zigzag_sequence(AsTimelineCuts(CutDicts(Len(call.cuts))))

\* the Timeline's order for six cuts whose contents differ from the canonical list
C28_Witness ==
    /\ ZigzagReturned
    /\ call.fn = "TimelineManager.create_zigzag_sequence"
    /\ call.cuts = CutDictsReversed(6)
    /\ result.value = <<0, 5, 2, 4, 1, 3>>

\* the scene boundaries in a returned scene list: the scene ends inside the video
Boundaries(scene_list, total) ==
    Cardinality({k \in 1..Len(scene_list) : scene_list[k][2] < total})

\* C23: for the same similarity stream and min_scene_duration, detect_scenes
\* with a higher sensitivity never yields fewer scene boundaries than with a
\* lower sensitivity.
C23_SensitivityMonotone ==
    DetectReturned =>
        \A higher \in SensitivityVals :
            higher > call.sensitivity =>
                LET other == SD_detect_scenes(call.video, higher, call.min_scene_duration)
                IN  other.status = "returned" =>
                        Boundaries(other.value, TotalDuration)
                            >= Boundaries(result.value, TotalDuration)

\* C30: the capture handle opened by detect_scenes is released on every exit
\* path: on normal return, when the source cannot be opened, and when an error
\* is raised while reading or comparing frames, no opened handle is left
\* unreleased.
C30_CaptureReleased ==
    DetectDone => result.cap # "open"

(***************************************************************************)
(* Properties of the TimelineManager (checked under Spec or SpecMutators). *)
(***************************************************************************)
EnabledCutsDisjoint ==
    \A i \in 1..Len(cuts) : \A j \in 1..Len(cuts) :
        (i # j /\ cuts[i].enabled /\ cuts[j].enabled) => ~Overlap(cuts[i], cuts[j])

\* C5: in every Timeline state reached through the mutators add_scene, add_cut,
\* remove_cut, generate_cuts_from_scenes and clear_timeline, no two enabled
\* cuts overlap in time.
C5_NoEnabledCutsOverlap == op # "init" => EnabledCutsDisjoint

RECURSIVE EnabledDuration(_)
EnabledDuration(cs) ==
    IF cs = <<>> THEN 0
    ELSE (IF Head(cs).enabled THEN Head(cs).duration ELSE 0) + EnabledDuration(Tail(cs))

StructuralMutationDone ==
    \/ op \in {"generate_cuts_from_scenes", "clear_timeline"}
    \/ op \in {"add_cut", "remove_cut", "load_timeline"} /\ ret.ok

\* C6: after every structural mutation (add_cut, remove_cut,
\* generate_cuts_from_scenes, clear_timeline, load_timeline) timeline_duration
\* is the sum of the durations of the enabled cuts only, 0 when there are none.
C6_DurationCountsEnabledCuts ==
    StructuralMutationDone => timeline_duration = EnabledDuration(cuts)

\* C7: validate_timeline returns the empty list exactly when no two enabled
\* cuts overlap, every cut's duration is within [min_cut_duration,
\* max_cut_duration] and every scene lasts at least min_scene_duration.
C7_ValidateEmptyIffValid ==
    op = "validate_timeline" =>
        (ret.value = <<>> <=>
            /\ EnabledCutsDisjoint
            /\ \A k \in 1..Len(cuts) : /\ cuts[k].duration >= min_cut_duration
                                       /\ cuts[k].duration <= max_cut_duration
            /\ \A k \in 1..Len(scenes) : scenes[k].duration >= min_scene_duration)

\* C8: a load_timeline that fails returns False and leaves cuts, scenes, the
\* three duration settings and timeline_duration exactly as before the call.
C8_FailedLoadChangesNothing ==
    [][(op' = "load_timeline" /\ ~ret'.ok) =>
          UNCHANGED <<cuts, scenes, min_cut_duration, max_cut_duration,
                      min_scene_duration, timeline_duration>>]_vars

LoadedFromSaved == op = "load_timeline" /\ ret.ok /\ ret.value = <<"saved">>

\* C9: save_timeline followed by load_timeline of the same file yields a
\* Timeline with the same cuts and scenes, identical values of every persisted
\* cut and scene field, and the same three duration settings.
C9_SaveLoadRoundTrip ==
    LoadedFromSaved =>
        /\ Len(cuts) = Len(file.data.cuts)
        /\ Len(scenes) = Len(file.data.scenes)
        /\ MapSeq(Cut_to_dict, cuts) = file.data.cuts
        /\ MapSeq(Scene_to_dict, scenes) = file.data.scenes
        /\ file.data.settings = [min_cut_duration   |-> min_cut_duration,
                                 max_cut_duration   |-> max_cut_duration,
                                 min_scene_duration |-> min_scene_duration]

\* a saved timeline with a disabled cut, a scene holding a cut id and changed
\* settings, loaded back
C9_Witness ==
    /\ LoadedFromSaved
    /\ Len(cuts) = 2
    /\ ~cuts[1].enabled
    /\ Len(scenes) = 1
    /\ scenes[1].cuts = <<1>>

\* C14: add_cut(start, end, scene_id) returns a new cut if and only if
\* min_cut_duration <= end - start <= max_cut_duration; otherwise it returns
\* None and cuts, every scene's cut list and timeline_duration stay as they were.
C14_AddCutContract ==
    [][op' = "add_cut" =>
          LET duration == args'[2] - args'[1]
          IN  /\ ret'.ok <=> (min_cut_duration <= duration /\ duration <= max_cut_duration)
              /\ ret'.ok =>
                    /\ Len(ret'.value) = 1
                    /\ ret'.value[1].start_time = args'[1]
                    /\ ret'.value[1].end_time = args'[2]
                    /\ ret'.value[1].scene_id = args'[3]
                    /\ cuts' = Append(cuts, ret'.value[1])
              /\ ~ret'.ok =>
                    /\ ret'.value = <<>>
                    /\ UNCHANGED <<cuts, scenes, timeline_duration>>]_vars

\* a cut longer than the loaded max_cut_duration refused by a timeline holding cuts
C14_Witness ==
    /\ op = "add_cut"
    /\ ~ret.ok
    /\ args[2] - args[1] > max_cut_duration
    /\ max_cut_duration # DefaultMaxCutDuration
    /\ cuts # <<>>

\* C15: add_scene(start, end) returns a new scene, appended with scene_id equal
\* to the previous scene count, if and only if end - start >= min_scene_duration;
\* otherwise it returns None and the scene and cut collections are unchanged.
\* Hence every scene added lasts at least min_scene_duration and the scene_ids
\* are 0, 1, 2, ... in order.
C15_AddSceneContract ==
    /\ [][op' = "add_scene" =>
            LET duration == args'[2] - args'[1]
            IN  /\ ret'.ok <=> duration >= min_scene_duration
                /\ ret'.ok =>
                      /\ Len(ret'.value) = 1
                      /\ ret'.value[1].scene_id = Len(scenes)
                      /\ ret'.value[1].start_time = args'[1]
                      /\ ret'.value[1].end_time = args'[2]
                      /\ scenes' = Append(scenes, ret'.value[1])
                /\ ~ret'.ok =>
                      /\ ret'.value = <<>>
                      /\ UNCHANGED <<scenes, cuts>>]_vars
    /\ [](\A k \in 1..Len(scenes) : /\ scenes[k].scene_id = k - 1
                                    /\ scenes[k].duration >= min_scene_duration)

\* a third scene accepted next to a cut
C15_Witness ==
    /\ op = "add_scene"
    /\ ret.ok
    /\ Len(scenes) = 3
    /\ scenes[3].scene_id = 2
    /\ cuts # <<>>

\* C16: remove_cut(cut_id) with a known id returns True, removes exactly that
\* cut, removes its id from the owning scene's cut list, leaves every other cut
\* and scene unchanged and timeline_duration equal to the summed duration of the
\* remaining cuts; with an unknown id it returns False and changes nothing.
C16_RemoveCutContract ==
    [][op' = "remove_cut" =>
          LET id == args'[1]
          IN  IF \E k \in 1..Len(cuts) : cuts[k].cut_id = id
              THEN /\ ret'.ok
                   /\ Len(scenes') = Len(scenes)
                   /\ \E i \in 1..Len(cuts) :
                         /\ cuts[i].cut_id = id
                         /\ cuts' = PopAt(cuts, i)
                         /\ \A k \in 1..Len(scenes) :
                               IF k = cuts[i].scene_id + 1
                               THEN /\ ~InSeq(id, scenes'[k].cuts)
                                    /\ [scenes'[k] EXCEPT !.cuts = <<>>]
                                          = [scenes[k] EXCEPT !.cuts = <<>>]
                               ELSE scenes'[k] = scenes[k]
                   /\ timeline_duration' = SumDurations(cuts')
              ELSE /\ ~ret'.ok
                   /\ UNCHANGED <<cuts, scenes, timeline_duration>>]_vars

\* 1-based positions of the scenes at least lo long, in scene order
RECURSIVE EligibleScenes(_, _, _)
EligibleScenes(ss, lo, i) ==
    IF i > Len(ss) THEN <<>>
    ELSE (IF ss[i].duration >= lo THEN <<i>> ELSE <<>>) \o EligibleScenes(ss, lo, i + 1)

\* C17: generate_cuts_from_scenes is destructive: whatever cuts the Timeline
\* held, afterwards its cuts are exactly the newly generated ones, one per scene
\* with duration >= min_cut_duration, with cut_ids 0..k-1, no earlier cut
\* remains, and timeline_duration is the sum of the new cuts' durations.
C17_GenerateReplacesCuts ==
    [][op' = "generate_cuts_from_scenes" =>
          LET eligible == EligibleScenes(scenes, min_cut_duration, 1)
          IN  /\ Len(cuts') = Len(eligible)
              /\ ret'.value = cuts'
              /\ \A k \in 1..Len(cuts') :
                    LET scene == scenes[eligible[k]]
                    IN  /\ cuts'[k].cut_id = k - 1
                        /\ cuts'[k].scene_id = scene.scene_id
                        /\ scene.start_time <= cuts'[k].start_time
                        /\ cuts'[k].end_time <= scene.end_time
              /\ timeline_duration' = SumDurations(cuts')]_vars

\* two loaded cuts replaced by the one cut generated for the loaded scene
C17_Witness ==
    /\ op = "generate_cuts_from_scenes"
    /\ Len(cuts) = 1
    /\ Len(scenes) = 1
    /\ scenes[1].cuts = <<1, 0>>

\* C18: in every Timeline state reachable by interleavings of add_cut,
\* remove_cut and generate_cuts_from_scenes, the cuts held have pairwise
\* distinct cut_id values.
C18_CutIdsDistinct ==
    \A i \in 1..Len(cuts) : \A j \in 1..Len(cuts) :
        i # j => cuts[i].cut_id # cuts[j].cut_id

\* C26: in every Timeline state reachable through add_scene, add_cut,
\* remove_cut and generate_cuts_from_scenes, each id in a scene's cut list
\* occurs there once and refers to a cut held by the Timeline whose scene_id is
\* that scene.
C26_SceneCutListsIntegrity ==
    \A k \in 1..Len(scenes) :
        \A p \in 1..Len(scenes[k].cuts) :
            /\ \A q \in 1..Len(scenes[k].cuts) :
                  scenes[k].cuts[q] = scenes[k].cuts[p] => q = p
            /\ \E c \in 1..Len(cuts) :
                  /\ cuts[c].cut_id = scenes[k].cuts[p]
                  /\ cuts[c].scene_id = scenes[k].scene_id

(***************************************************************************)
(* Properties of the automation pipeline (checked under SpecPipeline).     *)
(***************************************************************************)
CutsGenerated == InSeq("generate_fair_use_cuts", pipeline.log)

\* C19: when cut generation returns an empty list, execute_full_pipeline aborts
\* by raising an error: create_zigzag_sequence, the per-cut trimming,
\* compile_zigzag_sequence and the final extract_audio are not invoked
\* afterwards and no (video, audio) result is returned.
C19_NoCutsAbortsPipeline ==
    (CutsGenerated /\ pipeline.cuts = <<>>) =>
        /\ pipeline.pc = "done"
        /\ pipeline.outcome.status = "raised"
        /\ pipeline.log[Len(pipeline.log)] = "generate_fair_use_cuts"
        /\ ~InSeq("create_zigzag_sequence", pipeline.log)
        /\ ~InSeq("compile_zigzag_sequence", pipeline.log)
        /\ ~InSeq("extract_audio", pipeline.log)

\* two detected scenes, neither eligible for a cut
C19_Witness ==
    /\ CutsGenerated
    /\ pipeline.cuts = <<>>
    /\ Len(pipeline.scenes) = 2
    /\ pipeline.outcome.status = "raised"

\* C20: in a pipeline run that generates cuts c0..c(n-1), the clips are
\* concatenated in the final output in exactly the zigzag order of those cuts:
\* the reordering is applied once and each cut's clip appears exactly once.
C20_ConcatIsZigzagOfCuts ==
    (pipeline.pc = "done" /\ CutsGenerated /\ pipeline.cuts # <<>>) =>
        LET zigzag == SD_create_zigzag_sequence(pipeline.cuts)
        IN  /\ pipeline.outcome.status = "returned"
            /\ Len(pipeline.concat) = Len(pipeline.cuts)
            /\ \A k \in 1..Len(pipeline.concat) :
                  pipeline.concat[k] = Clip(pipeline.cuts[zigzag[k] + 1].start,
                                            pipeline.cuts[zigzag[k] + 1]["end"])

(***************************************************************************)
(* Properties of the TempManager (checked under SpecTemp).                 *)
(***************************************************************************)
\* C24: after any sequence of get_temp_file calls the number of registered
\* temp files never exceeds max_temp_files + 1: a call made at the limit first
\* triggers cleanup_old_files, which unregisters at least one file.
C24_RegistryBounded ==
    (temp.op # "none" /\ ~temp.other_calls) =>
        Len(temp.temp_files) <= temp.max_temp_files + 1

CleanupAllDone == temp.op \in {"cleanup_all", "cleanup_on_error", "__del__"}

C29_UsableAfterCleanup ==
    (temp.op \in {"get_temp_file", "get_temp_dir"} /\ temp.dir_removed) =>
        ParentExists(temp, temp.ret[1])

(***************************************************************************)
(* Properties of the TimelineWidget (checked under SpecWidget).            *)
(***************************************************************************)
\* C27: on_canvas_drag changes the selected cut's times only when the new
\* range keeps the duration within [min_cut_duration, max_cut_duration] and
\* overlaps no other cut of the Timeline, otherwise the cut is left unchanged;
\* after a committed drag the cut's duration equals end_time - start_time.
C27_DragRevalidates ==
    [][(widget'.op = "on_canvas_drag" /\ widget' # widget /\ cuts' # cuts) =>
          \E k \in 1..Len(cuts) :
             /\ \A j \in 1..Len(cuts) : j # k => cuts'[j] = cuts[j]
             /\ cuts'[k].duration = cuts'[k].end_time - cuts'[k].start_time
             /\ cuts'[k].duration >= min_cut_duration
             /\ cuts'[k].duration <= max_cut_duration
             /\ \A j \in 1..Len(cuts) : j # k =>
                   ~(cuts'[k].start_time < cuts[j].end_time
                       /\ cuts'[k].end_time > cuts[j].start_time)]_vars

\* a drag that moved a cut
C27_DragCommitted ==
    /\ widget.op = "on_canvas_drag"
    /\ widget.selected_cut # 0
    /\ \E k \in 1..Len(cuts) : cuts[k].start_time \notin {c[1] : c \in CutInputs}

\* the mouse button is down on a cut, and no cut is selected
C27_ClickSelectsNothing ==
    /\ widget.op = "on_canvas_click"
    /\ widget.is_dragging
    /\ widget.selected_cut = 0

====
